---- MODULE Spec2Model ----
(***************************************************************************)
(* Model of the campus-portal backend (src/main.py): the users table and  *)
(* its uniqueness constraints, the UserRegistration validation model, the *)
(* register / login / gemini-chat handlers, the job and schedule          *)
(* handlers' use of store connections, and two register calls racing on   *)
(* the store.                                                             *)
(*                                                                         *)
(* Strings are sequences of one-character strings, so that lower(),       *)
(* upper(), length checks and the usn patterns are computed, not assumed. *)
(***************************************************************************)
EXTENDS Integers, Sequences, FiniteSets, TLC

VARIABLES
    users,          \* rows of the users table (committed)
    jobs,           \* number of rows of the jobs table
    gemini_client,  \* TRUE when the module-level Gemini client was created
    req,            \* the request the last finished handler served
    resp,           \* the response it produced
    leaked,         \* connections opened by finished requests and never closed
    wpc,            \* race model: each worker's position inside register_user
    wrow,           \* race model: the row each worker inserts
    wresp,          \* race model: each worker's response
    wopen,          \* race model: whether the worker's connection is open
    lock            \* race model: worker holding the store's write lock, 0 if none

vars == <<users, jobs, gemini_client, req, resp, leaked, wpc, wrow, wresp, wopen, lock>>

-----------------------------------------------------------------------------
(* Bounds of the model and constants of the program *)

NumSalts == 2
MaxJobs == 2
MaxLeaked == 2
MinUsernameLen == 4
MinPasswordLen == 8

-----------------------------------------------------------------------------
(* Strings *)

None == <<"None">>

Rep(c, n) == [i \in 1..n |-> c]

UpperLetters == <<"A","B","C","D","E","F","G","H","I","J","K","L","M",
                  "N","O","P","Q","R","S","T","U","V","W","X","Y","Z">>
LowerLetters == <<"a","b","c","d","e","f","g","h","i","j","k","l","m",
                  "n","o","p","q","r","s","t","u","v","w","x","y","z">>
Digits == {"0","1","2","3","4","5","6","7","8","9"}

LowerChar(c) ==
    IF \E i \in 1..26 : UpperLetters[i] = c
    THEN LowerLetters[CHOOSE i \in 1..26 : UpperLetters[i] = c]
    ELSE c

UpperChar(c) ==
    IF \E i \in 1..26 : LowerLetters[i] = c
    THEN UpperLetters[CHOOSE i \in 1..26 : LowerLetters[i] = c]
    ELSE c

\* the characters the model's strings are made of
Alphabet ==
    {UpperLetters[i] : i \in 1..26} \cup {LowerLetters[i] : i \in 1..26}
        \cup Digits \cup {"@", "_", "."}

\* str.lower() and str.upper(), character by character
ToLower == [c \in Alphabet |-> LowerChar(c)]
ToUpper == [c \in Alphabet |-> UpperChar(c)]

Lower(s) == [i \in 1..Len(s) |-> ToLower[s[i]]]
Upper(s) == [i \in 1..Len(s) |-> ToUpper[s[i]]]

AllDigits(s) == \A i \in 1..Len(s) : s[i] \in Digits

-----------------------------------------------------------------------------
(* Literals of the program *)

S_student == <<"s","t","u","d","e","n","t">>
S_faculty == <<"f","a","c","u","l","t","y">>
S_placement_cell == <<"p","l","a","c","e","m","e","n","t","_","c","e","l","l">>
S_student_placements ==
    <<"s","t","u","d","e","n","t","_","p","l","a","c","e","m","e","n","t","s">>

ALLOWED_BRANCHES == {<<"C","S">>, <<"A","I">>, <<"C","S","B","S">>,
                     <<"C","S","D">>, <<"I","S">>, <<"E","C">>}
ALLOWED_ROLES == {S_student, S_faculty, S_placement_cell}
StudyYear == {0, 1, 2, 3, 4}

branch_map(b) ==
    CASE b = <<"C","S">> -> <<"c","s">>
      [] b = <<"A","I">> -> <<"a","i">>
      [] b = <<"C","S","B","S">> -> <<"c","b">>
      [] b = <<"C","S","D">> -> <<"c","d">>
      [] b = <<"I","S">> -> <<"i","s">>
      [] b = <<"E","C">> -> <<"e","c">>
      [] OTHER -> None

FieldOrder == <<"email", "full_name", "username", "branch", "usn",
                "study_year", "role", "password">>

-----------------------------------------------------------------------------
(* Password hashing: a salted one-way scheme.  The checksum is modelled as *)
(* the pair (salt, password): distinct inputs give distinct checksums.     *)

Salts == 1..NumSalts

Checksum(salt, password) == <<salt, password>>

hash_password(password, salt) ==
    [scheme |-> "sha256_crypt", salt |-> salt, checksum |-> Checksum(salt, password)]

verify_password(plain_password, hashed_password) ==
    Checksum(hashed_password.salt, plain_password) = hashed_password.checksum

-----------------------------------------------------------------------------
(* UserRegistration: field validation in declaration order.  `values` is  *)
(* the dict of the fields validated so far, as the validators receive it. *)

Get(values, k) == IF k \in DOMAIN values THEN values[k] ELSE None

Put(values, k, v) == [x \in (DOMAIN values) \cup {k} |-> IF x = k THEN v ELSE values[x]]

AtIndexes(s) == {i \in 1..Len(s) : s[i] = "@"}

\* EmailStr: one "@", a non-empty local part, a domain with a period inside
EmailOk(v) ==
    /\ Cardinality(AtIndexes(v)) = 1
    /\ \A i \in AtIndexes(v) :
          /\ 1 < i /\ i < Len(v)
          /\ v[i + 1] # "." /\ v[Len(v)] # "."
          /\ \E j \in (i + 1)..Len(v) : v[j] = "."

\* EmailStr's normalised form: the domain lower-cased, the local part kept
EmailNormalized(v) ==
    LET at == CHOOSE i \in AtIndexes(v) : TRUE
    IN  [i \in 1..Len(v) |-> IF i > at THEN ToLower[v[i]] ELSE v[i]]

\* ^4cb(\d{2})(code)(\d{3})$ with re.IGNORECASE
StudentUsnMatch(v, code) ==
    /\ Len(v) = 3 + 2 + Len(code) + 3
    /\ Lower(SubSeq(v, 1, 3)) = <<"4","c","b">>
    /\ AllDigits(SubSeq(v, 4, 5))
    /\ Lower(SubSeq(v, 6, 5 + Len(code))) = code
    /\ AllDigits(SubSeq(v, 6 + Len(code), Len(v)))

\* ^\d{10}$
EmployeeIdMatch(v) == Len(v) = 10 /\ AllDigits(v)

\* [ok, value] of the usn validator
validate_usn_format(v, values) ==
    LET role == Get(values, "role")
        branch == Get(values, "branch")
        expected_branch_code == IF branch # None THEN branch_map(Upper(branch)) ELSE None
    IN  IF role = S_student
        THEN IF expected_branch_code = None
             THEN [ok |-> FALSE, value |-> v]
             ELSE IF ~StudentUsnMatch(v, expected_branch_code)
                  THEN [ok |-> FALSE, value |-> v]
                  ELSE [ok |-> TRUE, value |-> Lower(v)]
        ELSE IF role \in {S_faculty, S_placement_cell}
             THEN IF ~EmployeeIdMatch(v)
                  THEN [ok |-> FALSE, value |-> v]
                  ELSE [ok |-> TRUE, value |-> Lower(v)]
             ELSE [ok |-> TRUE, value |-> Lower(v)]

\* [ok, value] of the study_year validator
validate_study_year_by_role(v, values) ==
    LET role == Get(values, "role")
    IN  IF role = S_student
        THEN [ok |-> 1 <= v /\ v <= 4, value |-> v]
        ELSE IF role \in {S_faculty, S_placement_cell}
             THEN [ok |-> v = 0, value |-> v]
             ELSE [ok |-> TRUE, value |-> v]

\* one field: its declared type, then its validator
ValidateField(k, v, values) ==
    CASE k = "email" ->
            IF EmailOk(v) THEN [ok |-> TRUE, value |-> EmailNormalized(v)]
                          ELSE [ok |-> FALSE, value |-> v]
      [] k = "full_name" -> [ok |-> TRUE, value |-> v]
      [] k = "username" -> [ok |-> Len(v) >= MinUsernameLen, value |-> v]
      [] k = "branch" -> [ok |-> v \in ALLOWED_BRANCHES, value |-> v]
      [] k = "usn" -> validate_usn_format(v, values)
      [] k = "study_year" ->
            IF v \in StudyYear THEN validate_study_year_by_role(v, values)
                               ELSE [ok |-> FALSE, value |-> v]
      [] k = "role" -> [ok |-> v \in ALLOWED_ROLES, value |-> v]
      [] k = "password" -> [ok |-> Len(v) >= MinPasswordLen, value |-> v]

\* fields 1..n validated in order; a failed field is left out of `values`
RECURSIVE ValidatedUpTo(_, _)
ValidatedUpTo(d, n) ==
    IF n = 0 THEN [ok |-> TRUE, values |-> <<>>]
    ELSE LET prev == ValidatedUpTo(d, n - 1)
             k == FieldOrder[n]
             r == ValidateField(k, d[k], prev.values)
         IN  IF r.ok THEN [ok |-> prev.ok, values |-> Put(prev.values, k, r.value)]
                     ELSE [ok |-> FALSE, values |-> prev.values]

UserRegistration(d) == ValidatedUpTo(d, Len(FieldOrder))

-----------------------------------------------------------------------------
(* Inputs *)

E_a == <<"a","@","x",".","i","o">>
E_A == <<"A","@","x",".","i","o">>
E_aX == <<"a","@","X",".","I","O">>
E_bad == <<"a","x",".","i","o">>

U_stud == <<"s","t","u","d">>
U_prof == <<"p","r","o","f">>
U_short == <<"a","b","c">>

P_p == Rep("p", MinPasswordLen)
P_q == Rep("q", MinPasswordLen)
P_short == Rep("p", MinPasswordLen - 1)

USN_cs == <<"4","c","b","2","3","c","s","0","0","1">>
USN_CS == <<"4","C","B","2","3","C","S","0","0","1">>
USN_emp == Rep("1", 10)

B_CS == <<"C","S">>
B_AI == <<"A","I">>
B_cs == <<"c","s">>

RegData(email, username, password, usn, branch, role, study_year) ==
    [email |-> email, full_name |-> <<"n">>, username |-> username,
     branch |-> branch, usn |-> usn, study_year |-> study_year,
     role |-> role, password |-> password]

S_admin == <<"a","d","m","i","n">>

\* two people (username, role, study_year); their email, password and usn vary;
\* three requests each break one field
People == {<<U_stud, S_student, 3>>, <<U_prof, S_faculty, 0>>}

RegInputs ==
    {RegData(e, who[1], p, n, B_CS, who[2], who[3]) :
        e \in {E_a, E_A, E_aX}, who \in People, p \in {P_p, P_q},
        n \in {USN_cs, USN_CS, USN_emp}}
    \cup {RegData(E_bad, U_stud, P_p, USN_cs, B_CS, S_student, 3),
          RegData(E_a, U_short, P_p, USN_cs, B_CS, S_student, 3),
          RegData(E_a, U_stud, P_short, USN_cs, B_CS, S_student, 3)}

LoginInputs ==
    {[email |-> e, password |-> p] : e \in {E_a, E_A, E_aX}, p \in {P_p, P_q}}

ChatInputs == {[user_email |-> e] : e \in {E_a, E_A, E_aX}}

\* one identity; role, study_year and usn vary, two requests name another
\* branch; three requests each break one field
ProfileRegInputs ==
    {RegData(E_a, U_stud, P_p, n, B_CS, r, y) :
        n \in {USN_cs, USN_CS, USN_emp}, r \in ALLOWED_ROLES, y \in StudyYear}
    \cup {RegData(E_a, U_stud, P_p, USN_cs, B_AI, S_student, 1),
          RegData(E_a, U_stud, P_p, USN_emp, B_AI, S_faculty, 0)}
    \cup {RegData(E_a, U_stud, P_p, USN_cs, B_cs, S_student, 3),
          RegData(E_a, U_stud, P_p, USN_cs, B_CS, S_admin, 3),
          RegData(E_a, U_stud, P_p, USN_cs, B_CS, S_student, 5)}

ProfileLoginInputs == {[email |-> E_a, password |-> p] : p \in {P_p, P_q}}

\* requests served while the store may fail
ConnRegInputs ==
    {RegData(E_a, U_stud, P_p, USN_cs, B_CS, S_student, 3),
     RegData(E_A, U_prof, P_p, USN_emp, B_CS, S_faculty, 0),
     RegData(E_bad, U_stud, P_p, USN_cs, B_CS, S_student, 3)}

ConnLoginInputs == {[email |-> E_a, password |-> p] : p \in {P_p, P_q}}

ConnChatInputs == {[user_email |-> e] : e \in {E_a, E_A}}

ConnScheduleInputs == {USN_CS, USN_emp}

\* the bodies of two register calls in flight together
RaceRegInputs ==
    {RegData(e, who[1], P_p, n, B_CS, who[2], who[3]) :
        e \in {E_a, E_A}, who \in People, n \in {USN_cs, USN_emp}}

AllRegInputs == RegInputs \cup ProfileRegInputs

\* the UserRegistration model FastAPI builds from each request body
Validated == [d \in AllRegInputs |-> UserRegistration(d)]

-----------------------------------------------------------------------------
(* The users table: email PRIMARY KEY, username UNIQUE, usn UNIQUE *)

UniqueColumns == {"email", "username", "usn"}

\* (variant: only the primary key is tested)
Violations_EmailOnly(table, row) == {c \in {"email"} : \E r \in table : r[c] = row[c]}

\* the constraints a new row would violate
Violations(table, row) == {c \in UniqueColumns : \E r \in table : r[c] = row[c]}

\* SELECT ... FROM users WHERE email = ?
SelectByEmail(table, email) == {r \in table : r.email = email}

\* the row register_user binds to its INSERT
RegisterRow(user_data, hashed_password) ==
    [email |-> user_data["email"],
     full_name |-> user_data["full_name"],
     username |-> user_data["username"],
     branch |-> Upper(user_data["branch"]),
     usn |-> Lower(user_data["usn"]),
     study_year |-> user_data["study_year"],
     role |-> Lower(user_data["role"]),
     password_hash |-> hashed_password]

\* the text of the IntegrityError: SQLite names the first unique index that
\* fails, and it tests the most recently created index first
IntegrityError(violated) ==
    IF "usn" \in violated THEN "UNIQUE constraint failed: users.usn"
    ELSE IF "username" \in violated THEN "UNIQUE constraint failed: users.username"
    ELSE "UNIQUE constraint failed: users.email"

\* (variant: INSERT OR REPLACE, the rows in the way are dropped)
Insert_OrReplace(table, row) ==
    [ok |-> TRUE, error |-> "",
     table |-> {r \in table : \A c \in UniqueColumns : r[c] # row[c]} \cup {row}]

\* INSERT INTO users: the row is added, or an IntegrityError is raised
Insert(table, row) ==
    IF Violations(table, row) # {}
    THEN [ok |-> FALSE, error |-> IntegrityError(Violations(table, row)), table |-> table]
    ELSE [ok |-> TRUE, error |-> "", table |-> table \cup {row}]

\* the detail register_user derives from str(e)
ConflictDetail(e) ==
    CASE e = "UNIQUE constraint failed: users.email" -> "Email already registered."
      [] e = "UNIQUE constraint failed: users.usn" -> "USN/Employee ID already registered."
      [] e = "UNIQUE constraint failed: users.username" -> "Username already taken."
      [] OTHER -> "Email, USN/Employee ID, or Username already exists."

-----------------------------------------------------------------------------
(* Responses *)

Response(st, detail) ==
    [status |-> st, detail |-> detail, role |-> None, study_year |-> None,
     dashboard |-> None, username |-> None]

InvalidResponse == Response(422, "validation error")
StoreErrorResponse == Response(500, "Internal Server Error")
\* (variant: only the third year is promoted)
Dashboard_ThirdYearOnly(role, study_year) ==
    IF role = S_student /\ study_year \in {3} THEN S_student_placements ELSE role

\* the dashboard expression of login_user
Dashboard(role, study_year) ==
    IF role = S_student /\ study_year \in {3, 4} THEN S_student_placements ELSE role

LoginOk(role, study_year) ==
    [status |-> 200, detail |-> "Login successful", role |-> role,
     study_year |-> study_year, dashboard |-> Dashboard(role, study_year),
     username |-> None]

\* (variant: an unknown email is told apart)
LoginResponse_NotFound(found, password) ==
    IF found = {} THEN Response(404, "User not found.")
    ELSE LET user == CHOOSE r \in found : TRUE
         IN  IF verify_password(password, user.password_hash)
             THEN LoginOk(user.role, user.study_year)
             ELSE Response(401, "Invalid email or password.")

\* the response of login_user for the fetched rows (at most one)
LoginResponse(found, password) ==
    IF found = {} THEN Response(401, "Invalid email or password.")
    ELSE LET user == CHOOSE r \in found : TRUE
         IN  IF verify_password(password, user.password_hash)
             THEN LoginOk(user.role, user.study_year)
             ELSE Response(401, "Invalid email or password.")

-----------------------------------------------------------------------------
(* Handlers.  `fault` is the store raising an error (not an integrity     *)
(* error) inside cursor.execute.                                          *)

RaceUnchanged == UNCHANGED <<wpc, wrow, wresp, wopen, lock>>

\* POST /register
Register(d, salt, fault) ==
    LET v == Validated[d]
        row == RegisterRow(v.values, hash_password(v.values["password"], salt))
    IN  /\ req' = [op |-> "register", data |-> d]
        /\ IF ~v.ok
           THEN /\ resp' = InvalidResponse
                /\ users' = users
           ELSE IF fault
           THEN /\ resp' = StoreErrorResponse
                /\ users' = users
           ELSE IF ~Insert(users, row).ok
           THEN /\ resp' = Response(400, ConflictDetail(Insert(users, row).error))
                /\ users' = users
           ELSE /\ users' = Insert(users, row).table
                /\ resp' = [Response(201, "Registration successful!")
                               EXCEPT !.username = row.username]
        /\ leaked' = leaked      \* finally: conn.close()
        /\ UNCHANGED <<jobs, gemini_client>>
        /\ RaceUnchanged

\* POST /login
Login(c, fault) ==
    /\ req' = [op |-> "login", data |-> c]
    /\ IF fault
       THEN /\ leaked < MaxLeaked
            /\ resp' = StoreErrorResponse
            /\ leaked' = leaked + 1     \* execute raised before conn.close()
       ELSE /\ resp' = LoginResponse(SelectByEmail(users, c.email), c.password)
            /\ leaked' = leaked
    /\ UNCHANGED <<users, jobs, gemini_client>>
    /\ RaceUnchanged

\* POST /gemini-chat; `api` is the outcome of the generate_content call
GeminiChat(q, fault, api) ==
    /\ req' = [op |-> "gemini-chat", data |-> q]
    /\ IF ~gemini_client
       THEN /\ resp' = Response(503, "Gemini service not configured (check API Key).")
            /\ leaked' = leaked
       ELSE IF fault
       THEN /\ leaked < MaxLeaked
            /\ resp' = StoreErrorResponse
            /\ leaked' = leaked + 1     \* execute raised before conn.close()
       ELSE /\ leaked' = leaked
            /\ IF SelectByEmail(users, q.user_email) = {}
               THEN resp' = Response(404, "User not found.")
               ELSE IF api = "ok" THEN resp' = Response(200, "response")
                                  ELSE resp' = Response(500, "Gemini API Error")
    /\ UNCHANGED <<users, jobs, gemini_client>>
    /\ RaceUnchanged

\* POST /placement/upload-job
UploadJob(fault) ==
    /\ jobs < MaxJobs
    /\ req' = [op |-> "upload-job", data |-> None]
    /\ IF fault
       THEN /\ resp' = Response(500, "Database error")
            /\ jobs' = jobs
       ELSE /\ resp' = Response(201, "Job Post uploaded successfully.")
            /\ jobs' = jobs + 1
    /\ leaked' = leaked      \* finally: conn.close()
    /\ UNCHANGED <<users, gemini_client>>
    /\ RaceUnchanged

\* GET /placement/jobs
ListJobs(fault) ==
    /\ req' = [op |-> "jobs", data |-> None]
    /\ IF fault
       THEN /\ leaked < MaxLeaked
            /\ resp' = StoreErrorResponse
            /\ leaked' = leaked + 1     \* execute raised before conn.close()
       ELSE /\ leaked' = leaked
            /\ IF jobs = 0
               THEN resp' = Response(200, "No job posts are currently available.")
               ELSE resp' = Response(200, "jobs")
    /\ UNCHANGED <<users, jobs, gemini_client>>
    /\ RaceUnchanged

\* the usn prefixes init_db seeds into the schedules table
SchedulePrefixes == {<<"4","c","b","2","3","c","s">>, <<"4","c","b","2","3","a","i">>}

Prefix7(usn) == SubSeq(usn, 1, IF Len(usn) < 7 THEN Len(usn) ELSE 7)

\* GET /student/schedule/{usn}
Schedule(usn, fault) ==
    /\ req' = [op |-> "schedule", data |-> usn]
    /\ IF fault
       THEN /\ leaked < MaxLeaked
            /\ resp' = StoreErrorResponse
            /\ leaked' = leaked + 1     \* execute raised before conn.close()
       ELSE /\ leaked' = leaked
            /\ IF Lower(Prefix7(usn)) \in SchedulePrefixes
               THEN resp' = Response(200, "schedule")
               ELSE resp' = Response(404, "Daily schedule not found")
    /\ UNCHANGED <<users, jobs, gemini_client>>
    /\ RaceUnchanged

-----------------------------------------------------------------------------
(* Specifications *)

NoRequest == [op |-> "none", data |-> None]

\* the state after import: init_db has run, no request was served;
\* `clients` says whether GEMINI_API_KEY was set
Start(clients) ==
    /\ users = {}
    /\ jobs = 0
    /\ gemini_client \in clients
    /\ req = NoRequest
    /\ resp = Response(0, "")
    /\ leaked = 0
    /\ wpc = <<"idle", "idle">>
    /\ wrow = <<None, None>>
    /\ wresp = <<Response(0, ""), Response(0, "")>>
    /\ wopen = <<FALSE, FALSE>>
    /\ lock = 0

\* the Gemini client configured
Init == Start({TRUE})

\* the Gemini client absent
InitProfile == Start({FALSE})

\* either
InitConn == Start(BOOLEAN)

\* the handlers one after another, the store working
Next ==
    \/ \E d \in RegInputs, salt \in Salts : Register(d, salt, FALSE)
    \/ \E c \in LoginInputs : Login(c, FALSE)
    \/ \E q \in ChatInputs, api \in {"ok", "error"} : GeminiChat(q, FALSE, api)

Spec == Init /\ [][Next]_vars

NextProfile ==
    \/ \E d \in ProfileRegInputs, salt \in Salts : Register(d, salt, FALSE)
    \/ \E c \in ProfileLoginInputs : Login(c, FALSE)

SpecProfile == InitProfile /\ [][NextProfile]_vars

\* every handler, the store failing at will
NextConn ==
    \/ \E d \in ConnRegInputs, salt \in Salts, fault \in BOOLEAN : Register(d, salt, fault)
    \/ \E c \in ConnLoginInputs, fault \in BOOLEAN : Login(c, fault)
    \/ \E q \in ConnChatInputs, fault \in BOOLEAN, api \in {"ok", "error"} : GeminiChat(q, fault, api)
    \/ \E fault \in BOOLEAN : UploadJob(fault)
    \/ \E fault \in BOOLEAN : ListJobs(fault)
    \/ \E usn \in ConnScheduleInputs, fault \in BOOLEAN : Schedule(usn, fault)

SpecConn == InitConn /\ [][NextConn]_vars

-----------------------------------------------------------------------------
(* Two register calls in flight together, each on its own connection.     *)
(* FastAPI runs the handler in a thread pool; SQLite admits one write     *)
(* transaction at a time and makes the other connection wait for it.      *)

Workers == {1, 2}

\* (variant: a store that lets two write transactions run together)
WriteLockFree_Always(w) == TRUE

\* no other connection holds the write lock
WriteLockFree(w) == lock = 0 \/ lock = w

SequentialUnchanged == UNCHANGED <<jobs, gemini_client, req, resp, leaked>>

\* hash_password, get_db_connection
RaceConnect(w, d, salt) ==
    /\ wpc[w] = "idle"
    /\ Validated[d].ok
    /\ wrow' = [wrow EXCEPT ![w] =
                  RegisterRow(Validated[d].values,
                              hash_password(Validated[d].values["password"], salt))]
    /\ wopen' = [wopen EXCEPT ![w] = TRUE]
    /\ wpc' = [wpc EXCEPT ![w] = "connected"]
    /\ UNCHANGED <<users, wresp, lock>>
    /\ SequentialUnchanged

\* cursor.execute(INSERT): opens the write transaction, tests the unique indexes
RaceInsert(w) ==
    /\ wpc[w] = "connected"
    /\ WriteLockFree(w)
    /\ lock' = w
    /\ IF ~Insert(users, wrow[w]).ok
       THEN /\ wresp' = [wresp EXCEPT ![w] =
                   Response(400, ConflictDetail(Insert(users, wrow[w]).error))]
            /\ wpc' = [wpc EXCEPT ![w] = "finally"]
       ELSE /\ wresp' = wresp
            /\ wpc' = [wpc EXCEPT ![w] = "inserted"]
    /\ UNCHANGED <<users, wrow, wopen>>
    /\ SequentialUnchanged

\* conn.commit(); return
RaceCommit(w) ==
    /\ wpc[w] = "inserted"
    /\ users' = Insert(users, wrow[w]).table
    /\ lock' = 0
    /\ wresp' = [wresp EXCEPT ![w] =
                   [Response(201, "Registration successful!")
                       EXCEPT !.username = wrow[w].username]]
    /\ wpc' = [wpc EXCEPT ![w] = "finally"]
    /\ UNCHANGED <<wrow, wopen>>
    /\ SequentialUnchanged

\* finally: conn.close(), which rolls an open transaction back
RaceClose(w) ==
    /\ wpc[w] = "finally"
    /\ wopen' = [wopen EXCEPT ![w] = FALSE]
    /\ lock' = IF lock = w THEN 0 ELSE lock
    /\ wpc' = [wpc EXCEPT ![w] = "done"]
    /\ UNCHANGED <<users, wrow, wresp>>
    /\ SequentialUnchanged

NextRace ==
    \/ \E w \in Workers, d \in RaceRegInputs, salt \in Salts : RaceConnect(w, d, salt)
    \/ \E w \in Workers : RaceInsert(w)
    \/ \E w \in Workers : RaceCommit(w)
    \/ \E w \in Workers : RaceClose(w)

SpecRace == InitProfile /\ [][NextRace]_vars

-----------------------------------------------------------------------------
(* Properties *)

S_student_general == <<"s","t","u","d","e","n","t","_","g","e","n","e","r","a","l">>
S_faculty_dashboard ==
    <<"f","a","c","u","l","t","y","_","d","a","s","h","b","o","a","r","d">>
S_placement_dashboard ==
    <<"p","l","a","c","e","m","e","n","t","_","d","a","s","h","b","o","a","r","d">>

\* no two rows of the table share an email, a usn or a username
UniqueKeys(table) ==
    \A r1 \in table, r2 \in table :
        (\E c \in UniqueColumns : r1[c] = r2[c]) => r1 = r2

\* a submitted body names the email, usn or username of a stored row
SharesKeyWithStored(table, d) ==
    \E r \in table : r.email = d.email \/ r.usn = d.usn \/ r.username = d.username

\* the last request was a register call whose body validated, so that
\* register_user ran
RegisterCalled(r) == r.op = "register" /\ Validated[r.data].ok

UsnShapeOk(r) ==
    IF r.role = S_student
    THEN /\ branch_map(r.branch) # None
         /\ StudentUsnMatch(r.usn, branch_map(r.branch))
         /\ r.usn = Lower(r.usn)
    ELSE EmployeeIdMatch(r.usn)

\* C2: every stored row has the usn shape of its role: a student's usn is
\* 4cb + 2 digits + the code of the row's branch + 3 digits, lower-cased; a
\* faculty or placement_cell usn is exactly 10 digits.
C2_StoredUsnShape == \A r \in users : UsnShapeOk(r)

\* C3: every stored row has study_year in 1..4 when its role is student and
\* study_year 0 when its role is faculty or placement_cell.
C3_StoredStudyYearByRole ==
    \A r \in users :
        IF r.role = S_student THEN r.study_year \in 1..4 ELSE r.study_year = 0

\* the row a login request reads
LoginRow(c) == SelectByEmail(users, c.email)

\* C4 as claimed: a successful login's dashboard is student_placements for a
\* student of year 3 or 4, student_general for a student of year 1 or 2,
\* faculty_dashboard for faculty, placement_dashboard for placement_cell.
C4_DashboardAsClaimed ==
    (req.op = "login" /\ resp.status = 200) =>
        \A r \in LoginRow(req.data) :
            /\ (resp.dashboard = S_student_placements)
                  <=> (r.role = S_student /\ r.study_year \in {3, 4})
            /\ (r.role = S_student /\ r.study_year \in {1, 2})
                  => resp.dashboard = S_student_general
            /\ r.role = S_faculty => resp.dashboard = S_faculty_dashboard
            /\ r.role = S_placement_cell => resp.dashboard = S_placement_dashboard

\* C4 amended: a successful login's dashboard is a function of the stored role
\* and study_year: student_placements exactly when the role is student and the
\* year is 3 or 4; otherwise the stored role itself (student, faculty,
\* placement_cell).
C4_DashboardIsRoleUnlessSenior ==
    (req.op = "login" /\ resp.status = 200) =>
        /\ LoginRow(req.data) # {}
        /\ \A r \in LoginRow(req.data) :
            /\ resp.role = r.role /\ resp.study_year = r.study_year
            /\ (resp.dashboard = S_student_placements)
                  <=> (r.role = S_student /\ r.study_year \in {3, 4})
            /\ (r.role = S_student /\ r.study_year \notin {3, 4})
                  => resp.dashboard = S_student
            /\ r.role = S_faculty => resp.dashboard = S_faculty
            /\ r.role = S_placement_cell => resp.dashboard = S_placement_cell

\* C4 witness: a fourth-year student logged in and got student_placements
C4_Witness ==
    /\ req.op = "login" /\ resp.status = 200
    /\ resp.dashboard = S_student_placements
    /\ \E r \in users : r.role = S_student /\ r.study_year = 4

\* a login request whose email has no row / whose password does not match
NoRecord(c) == LoginRow(c) = {}
WrongPassword(c) ==
    \E r \in LoginRow(c) : ~verify_password(c.password, r.password_hash)

\* C5: whatever the table holds, a login with an unknown email and a login
\* with a known email and a wrong password get the same response, 401 with the
\* same detail.
C5_SameUnauthorized ==
    /\ \A c1 \in LoginInputs, c2 \in LoginInputs :
          (NoRecord(c1) /\ WrongPassword(c2)) =>
              /\ LoginResponse(LoginRow(c1), c1.password)
                   = LoginResponse(LoginRow(c2), c2.password)
              /\ LoginResponse(LoginRow(c1), c1.password).status = 401
    /\ (req.op = "login" /\ (NoRecord(req.data) \/ WrongPassword(req.data))) =>
          (resp.status = 401 /\ resp.detail = "Invalid email or password.")

\* C5 witness: a login with a wrong password was refused while another email
\* of the inputs has no row
C5_Witness ==
    /\ req.op = "login" /\ resp.status = 401 /\ WrongPassword(req.data)
    /\ \E c \in LoginInputs : NoRecord(c)

\* C6: a login that follows a successful register call and submits the same
\* email and the same password succeeds with the registered role and
\* study_year; with the same email and another password it is answered 401.
C6_RegisterThenLogin ==
    [][(req.op = "register" /\ resp.status = 201 /\ req'.op = "login"
            /\ req'.data.email = req.data.email) =>
           IF req'.data.password = req.data.password
           THEN /\ resp'.status = 200
                /\ resp'.role = req.data.role
                /\ resp'.study_year = req.data.study_year
           ELSE resp'.status = 401]_vars

\* C7: email is case-insensitive: every stored email is lower-case, no two
\* stored emails differ only in letter case, and a login finds the row
\* whatever the letter case of the submitted email.
C7_EmailCaseInsensitive ==
    /\ \A r \in users : r.email = Lower(r.email)
    /\ \A r1 \in users, r2 \in users : Lower(r1.email) = Lower(r2.email) => r1 = r2
    /\ (req.op = "login"
          /\ \E r \in users : /\ Lower(r.email) = Lower(req.data.email)
                              /\ verify_password(req.data.password, r.password_hash))
         => resp.status = 200

\* two rows that share an email, a usn or a username
SharesKey(r1, r2) == \E c \in UniqueColumns : r1[c] = r2[c]

C9_NoConnectionLeftOpen == leaked = 0

\* C10: a stored row is never changed or removed: a register call answered 201
\* adds exactly one row and keeps the others; every other request (login,
\* gemini-chat, a register call answered 422 or 400) leaves the table as it was.
C10_RowsOnlyAdded ==
    [][IF req'.op = "register" /\ resp'.status = 201
       THEN /\ users \subseteq users'
            /\ Cardinality(users') = Cardinality(users) + 1
       ELSE users' = users]_vars

\* C10 witness: a second row was added beside a stored one
C10_Witness ==
    /\ req.op = "register" /\ resp.status = 201
    /\ Cardinality(users) = 2
    /\ \E r \in users : r.username # req.data.username

====
